---- MODULE Spec2Model ----
(***************************************************************************)
(* Well Log Converter (src/app.py): the depth-column resolver, the curve   *)
(* plotter, the LAS->CSV and CSV->LAS converters and the Streamlit page    *)
(* main() that composes them.                                              *)
(*                                                                         *)
(* Column names, curve mnemonics and units are sequences of one-character  *)
(* strings, so that lower(), the substring test and the LAS header line    *)
(* are computed rather than assumed.  A column's values are represented by *)
(* a tag naming the column they were read from: a conversion that drops,   *)
(* duplicates, renames or swaps columns changes what the tags show.        *)
(*                                                                         *)
(* Two specifications:                                                     *)
(*   ApiSpec  the four functions called directly, inputs from bounded sets *)
(*   Spec     one run of main() per uploaded file (Streamlit reruns the    *)
(*            script from the top on every interaction)                    *)
(***************************************************************************)
EXTENDS Naturals, Sequences, FiniteSets

VARIABLES entry, args, ret, page, outcome

vars == <<entry, args, ret, page, outcome>>

----------------------------------------------------------------------------
(* Bounds *)

\* Largest number of columns of a dataset / curves of a LAS file.
MaxCols == 3

----------------------------------------------------------------------------
(* Strings *)

UpperAlpha ==
  <<"A","B","C","D","E","F","G","H","I","J","K","L","M",
    "N","O","P","Q","R","S","T","U","V","W","X","Y","Z">>

LowerAlpha ==
  <<"a","b","c","d","e","f","g","h","i","j","k","l","m",
    "n","o","p","q","r","s","t","u","v","w","x","y","z">>

\* str.lower() / str.upper() on one character.
lower_char(c) ==
  IF \E i \in DOMAIN UpperAlpha : UpperAlpha[i] = c
  THEN LowerAlpha[CHOOSE i \in DOMAIN UpperAlpha : UpperAlpha[i] = c]
  ELSE c

upper_char(c) ==
  IF \E i \in DOMAIN LowerAlpha : LowerAlpha[i] = c
  THEN UpperAlpha[CHOOSE i \in DOMAIN LowerAlpha : LowerAlpha[i] = c]
  ELSE c

lower(s) == [i \in DOMAIN s |-> lower_char(s[i])]

upper(s) == [i \in DOMAIN s |-> upper_char(s[i])]

\* Python's `needle in hay` on strings.
Contains(hay, needle) ==
  \E i \in 0..Len(hay) :
     /\ i + Len(needle) <= Len(hay)
     /\ SubSeq(hay, i + 1, i + Len(needle)) = needle

\* Python's `x in seq` on a list / Index.
InSeq(x, seq) == \E i \in DOMAIN seq : seq[i] = x

Min(S) == CHOOSE m \in S : \A n \in S : m <= n

\* list.remove(x): drops the first occurrence.
RemoveFirst(seq, x) ==
  LET k == Min({i \in DOMAIN seq : seq[i] = x})
  IN  SubSeq(seq, 1, k - 1) \o SubSeq(seq, k + 1, Len(seq))

----------------------------------------------------------------------------
(* Names *)

DEPTH        == <<"D","E","P","T","H">>
MD           == <<"M","D">>
TVD          == <<"T","V","D">>
DEPT         == <<"D","E","P","T">>
PROFUNDIDADE == <<"P","R","O","F","U","N","D","I","D","A","D","E">>
PROF         == <<"P","R","O","F">>

GR   == <<"G","R">>
RHOB == <<"R","H","O","B">>
NPHI == <<"N","P","H","I">>
RT   == <<"R","T">>
DT   == <<"D","T">>
CALI == <<"C","A","L","I">>
SP   == <<"S","P">>

MD_depth_m == <<"M","D","_","d","e","p","t","h","_","m">>
tvd_ft     == <<"t","v","d","_","f","t">>
FOO        == <<"F","O","O">>
NOTES      == <<"N","O","T","E","S">>
INDEX      == <<"i","n","d","e","x">>

\* Column names / curve mnemonics the inputs are drawn from.
Names == {DEPTH, MD, PROF, MD_depth_m, tvd_ft, GR, RHOB, FOO, NOTES, INDEX}

\* Column-name lists of the datasets: non-empty, names unique (pandas.read_csv
\* and lasio both make the names of a table unique).
ColumnLists ==
  {cols \in UNION {[1..n -> Names] : n \in 1..MaxCols} :
      \A i, j \in DOMAIN cols : cols[i] = cols[j] => i = j}

\* A DataFrame: its columns in order, each a name and its values.
Frame(cols) == [i \in DOMAIN cols |-> [name |-> cols[i], data |-> cols[i]]]

Columns(df) == [i \in DOMAIN df |-> df[i].name]

\* df[name]: the values of the column of that label; where several columns
\* carry the label, pandas gives the frame of them all.
Column(df, name) ==
  LET hit == SelectSeq(df, LAMBDA c : c.name = name)
  IN  IF Len(hit) = 1 THEN hit[1].data ELSE [frame |-> hit]

----------------------------------------------------------------------------
(* get_depth_column *)

depth_columns == <<DEPTH, MD, TVD, DEPT, PROFUNDIDADE, PROF>>

\* A plausible slip: the exact match taken in dataset order.
get_depth_column_by_dataset_order(columns) ==
  IF \E j \in DOMAIN columns : InSeq(columns[j], depth_columns)
  THEN columns[Min({j \in DOMAIN columns : InSeq(columns[j], depth_columns)})]
  ELSE columns[1]

\* A plausible slip: the partial match compares without lower().
get_depth_column_case_sensitive(columns) ==
  LET exact   == {i \in DOMAIN depth_columns : InSeq(depth_columns[i], columns)}
      partial == {j \in DOMAIN columns :
                    \E k \in DOMAIN depth_columns :
                       Contains(columns[j], depth_columns[k])}
  IN  IF exact # {} THEN depth_columns[Min(exact)]
      ELSE IF partial # {} THEN columns[Min(partial)]
      ELSE columns[1]

\* A plausible slip: the default is the last column, not the first.
get_depth_column_last(columns) ==
  LET exact   == {i \in DOMAIN depth_columns : InSeq(depth_columns[i], columns)}
      partial == {j \in DOMAIN columns :
                    \E k \in DOMAIN depth_columns :
                       Contains(lower(columns[j]), lower(depth_columns[k]))}
  IN  IF exact # {} THEN depth_columns[Min(exact)]
      ELSE IF partial # {} THEN columns[Min(partial)]
      ELSE columns[Len(columns)]

\* `columns` is df.columns.  The two loops return at their first hit; the
\* default df.columns[0] needs a column (every dataset here has one).
get_depth_column(columns) ==
  LET exact   == {i \in DOMAIN depth_columns : InSeq(depth_columns[i], columns)}
      partial == {j \in DOMAIN columns :
                    \E k \in DOMAIN depth_columns :
                       Contains(lower(columns[j]), lower(depth_columns[k]))}
  IN  IF exact # {} THEN depth_columns[Min(exact)]
      ELSE IF partial # {} THEN columns[Min(partial)]
      ELSE columns[1]

----------------------------------------------------------------------------
(* Streamlit page elements *)

Warning(text) == [kind |-> "warning", text |-> text]
Error(text)   == [kind |-> "error", text |-> text]

Kinds(elements) == {elements[i].kind : i \in DOMAIN elements}

----------------------------------------------------------------------------
(* plot_basic_logs *)

available_curves == <<GR, RHOB, NPHI, RT, DT, CALI, SP>>

colors ==
  <<"#1f77b4", "#ff7f0e", "#2ca02c", "#d62728", "#9467bd", "#8c564b", "#e377c2">>

\* The curves chosen, before the check for none: lines 50-57.
curves_to_plot(df, depth_col) ==
  LET standard == SelectSeq(available_curves, LAMBDA c : InSeq(c, Columns(df)))
  IN  IF standard # <<>> THEN standard
      ELSE IF InSeq(depth_col, Columns(df))
           THEN RemoveFirst(Columns(df), depth_col)
           ELSE Columns(df)

\* A plausible slip: the depth column is not taken out of the fallback list.
plot_basic_logs_keeps_depth(df, depth_col) ==
  LET standard == SelectSeq(available_curves, LAMBDA c : InSeq(c, Columns(df)))
      curves   == IF standard # <<>> THEN standard ELSE Columns(df)
  IN  [raised |-> FALSE,
       fig    |-> TRUE,
       traces |-> [i \in DOMAIN curves |->
                     [name |-> curves[i], x |-> Column(df, curves[i]),
                      y |-> Column(df, depth_col),
                      color |-> colors[((i - 1) % Len(colors)) + 1]]],
       st     |-> IF standard = <<>>
                  THEN <<Warning("Nenhuma curva padrao encontrada no arquivo.")>>
                  ELSE <<>>]

\* A plausible slip: the standard curves taken in the dataset's order.
plot_basic_logs_dataset_order(df, depth_col) ==
  LET standard == SelectSeq(Columns(df), LAMBDA c : InSeq(c, available_curves))
      curves   == IF standard # <<>> THEN standard
                  ELSE IF InSeq(depth_col, Columns(df))
                       THEN RemoveFirst(Columns(df), depth_col)
                       ELSE Columns(df)
  IN  [raised |-> FALSE,
       fig    |-> curves # <<>>,
       traces |-> [i \in DOMAIN curves |->
                     [name |-> curves[i], x |-> Column(df, curves[i]),
                      y |-> Column(df, depth_col),
                      color |-> colors[((i - 1) % Len(colors)) + 1]]],
       st     |-> <<>>]

\* The result: raised (df[depth_col] is a KeyError when a trace is built for a
\* depth_col that is no column), fig (FALSE: None was returned), the traces of
\* the figure in order, and what was put on the page.
plot_basic_logs(df, depth_col) ==
  LET standard == SelectSeq(available_curves, LAMBDA c : InSeq(c, Columns(df)))
      curves   == curves_to_plot(df, depth_col)
      warned   == IF standard = <<>>
                  THEN <<Warning("Nenhuma curva padrao encontrada no arquivo.")>>
                  ELSE <<>>
  IN  IF curves = <<>>
      THEN [raised |-> FALSE, fig |-> FALSE, traces |-> <<>>,
            st |-> warned \o <<Error("Nao ha curvas para plotar.")>>]
      ELSE IF ~InSeq(depth_col, Columns(df))
      THEN [raised |-> TRUE, fig |-> FALSE, traces |-> <<>>, st |-> warned]
      ELSE [raised |-> FALSE,
            fig    |-> TRUE,
            traces |-> [i \in DOMAIN curves |->
                          [name |-> curves[i], x |-> Column(df, curves[i]),
                           y |-> Column(df, depth_col),
                           color |-> colors[((i - 1) % Len(colors)) + 1]]],
            st     |-> warned]

----------------------------------------------------------------------------
(* lasio and pandas, as far as the converters use them *)

\* The ~Well section of a fresh lasio.LASFile(): the library's default header
\* items, in its order, with their default values.
DefaultWell ==
  <<[mnemonic |-> "STRT", value |-> "nan"],
    [mnemonic |-> "STOP", value |-> "nan"],
    [mnemonic |-> "STEP", value |-> "nan"],
    [mnemonic |-> "NULL", value |-> "-9999.25"],
    [mnemonic |-> "COMP", value |-> ""],
    [mnemonic |-> "WELL", value |-> ""],
    [mnemonic |-> "FLD",  value |-> ""],
    [mnemonic |-> "LOC",  value |-> ""],
    [mnemonic |-> "PROV", value |-> ""],
    [mnemonic |-> "CNTY", value |-> ""],
    [mnemonic |-> "STAT", value |-> ""],
    [mnemonic |-> "CTRY", value |-> ""],
    [mnemonic |-> "SRVC", value |-> ""],
    [mnemonic |-> "DATE", value |-> ""],
    [mnemonic |-> "UWI",  value |-> ""],
    [mnemonic |-> "API",  value |-> ""]>>

\* lasio.LASFile(): default header, no curves.
LASFile == [well |-> DefaultWell, curves |-> <<>>]

\* las.well[key] = value with a plain value: the item of that mnemonic gets the
\* value.  The keys written here (WELL, FLD, COMP, DATE) are all items of the
\* default section.
set_item_value(section, key, value) ==
  [i \in DOMAIN section |->
     IF section[i].mnemonic = key
     THEN [section[i] EXCEPT !.value = value]
     ELSE section[i]]

\* las.append_curve(mnemonic, data, unit=...): the curve goes last.
append_curve(las, mnemonic, data, unit) ==
  [las EXCEPT !.curves =
     Append(@, [mnemonic |-> mnemonic, unit |-> unit, data |-> data])]

\* The header line of a curve in LAS text: MNEM.UNIT : description
CurveLine(curve) == curve.mnemonic \o <<".">> \o curve.unit \o <<" ", ":">>

FirstAt(line, ch) == Min({i \in DOMAIN line : line[i] = ch})

\* The line read back: the mnemonic is what precedes the first period, the
\* unit what follows it up to the first space.
ParseCurveLine(line, data) ==
  LET dot  == FirstAt(line, ".")
      rest == SubSeq(line, dot + 1, Len(line))
  IN  [mnemonic |-> SubSeq(line, 1, dot - 1),
       unit     |-> SubSeq(rest, 1, FirstAt(rest, " ") - 1),
       data     |-> data]

\* las.write(buffer): the text of the document.
las_write(las) ==
  [well   |-> las.well,
   curves |-> [i \in DOMAIN las.curves |-> CurveLine(las.curves[i])],
   data   |-> [i \in DOMAIN las.curves |-> las.curves[i].data]]

\* lasio.read(text) of well-formed LAS text.
lasio_read(text) ==
  [well   |-> text.well,
   curves |-> [i \in DOMAIN text.curves |->
                 ParseCurveLine(text.curves[i], text.data[i])]]

\* las.index_unit: the standardised unit of the index curve, <<>> for None.
index_unit(las) ==
  LET unit == upper(las.curves[1].unit)
  IN  IF unit = <<"M">> THEN <<"M">>
      ELSE IF unit = <<"F","T">> THEN <<"F","T">>
      ELSE <<>>

\* las.df(): the first curve is the index, named by its mnemonic.
las_df(las) ==
  [index   |-> [name |-> las.curves[1].mnemonic, data |-> las.curves[1].data],
   columns |-> [i \in 1..(Len(las.curves) - 1) |->
                  [name |-> las.curves[i + 1].mnemonic,
                   data |-> las.curves[i + 1].data]]]

\* DataFrame.reset_index(): a named index becomes the first column under its
\* own name.
reset_index(indexed) == <<indexed.index>> \o indexed.columns

\* DataFrame.rename(columns={old: new}).
rename(df, old, new) ==
  [i \in DOMAIN df |->
     IF df[i].name = old THEN [df[i] EXCEPT !.name = new] ELSE df[i]]

----------------------------------------------------------------------------
(* Uploaded files *)

\* An uploaded .las file: bytes that are no UTF-8, text that is no LAS, or LAS
\* text.  The index curve declares metres, feet or no unit.
IndexUnits == {<<"m">>, <<"f","t">>, <<>>}

LasDocument(cols, unit) ==
  [well   |-> DefaultWell,
   curves |-> [i \in DOMAIN cols |->
                 [mnemonic |-> cols[i],
                  unit     |-> IF i = 1 THEN unit ELSE <<>>,
                  data     |-> cols[i]]]]

LasUpload(text) == [kind |-> "las", text |-> text]

LasFiles ==
  {[kind |-> "binary", text |-> <<>>], [kind |-> "garbage", text |-> <<>>]}
    \cup {LasUpload(las_write(LasDocument(cols, unit))) :
            cols \in ColumnLists, unit \in IndexUnits}

\* An uploaded .csv file: text pandas cannot parse, or a table.
CsvUpload(cols) == [kind |-> "csv", table |-> Frame(cols)]

CsvFiles ==
  {[kind |-> "garbage", table |-> <<>>]} \cup {CsvUpload(cols) : cols \in ColumnLists}

----------------------------------------------------------------------------
(* las_to_csv *)

\* The result: ok (FALSE: None was returned), the DataFrame, and what was put
\* on the page.
las_to_csv(las_file) ==
  IF las_file.kind # "las"
  THEN [ok |-> FALSE, df |-> <<>>, st |-> <<Error("Erro ao ler o arquivo LAS")>>]
  ELSE LET las        == lasio_read(las_file.text)
           df         == las_df(las)
           depth_name == IF index_unit(las) = <<>> THEN DEPTH ELSE index_unit(las)
       IN  [ok |-> TRUE,
            df |-> rename(reset_index(df), INDEX, depth_name),
            st |-> <<>>]

----------------------------------------------------------------------------
(* csv_to_las *)

\* for key, value in well_info.items(): las.well[key] = value
RECURSIVE write_well_info(_, _)
write_well_info(well, well_info) ==
  IF well_info = <<>> THEN well
  ELSE write_well_info(
         set_item_value(well, Head(well_info).key, Head(well_info).value),
         Tail(well_info))

\* for column in df.columns: if column != depth_col: las.append_curve(...)
RECURSIVE append_remaining(_, _, _, _)
append_remaining(las, df, columns, depth_col) ==
  IF columns = <<>> THEN las
  ELSE append_remaining(
         IF Head(columns) # depth_col
         THEN append_curve(las, Head(columns), Column(df, Head(columns)), <<>>)
         ELSE las,
         df, Tail(columns), depth_col)

\* A plausible slip: the depth column is appended again with the others.
csv_to_las_depth_twice(csv_file, well_info, fault) ==
  IF csv_file.kind # "csv" \/ fault = "append_curve"
  THEN [ok |-> FALSE, las |-> <<>>,
        st |-> <<[kind |-> "error", text |-> "Erro ao converter para LAS"]>>]
  ELSE LET df        == csv_file.table
           las0      == [LASFile EXCEPT !.well = write_well_info(@, well_info)]
           depth_col == get_depth_column(Columns(df))
           las1      == append_curve(las0, depth_col, Column(df, depth_col), <<"m">>)
       IN  [ok  |-> TRUE,
            las |-> append_remaining(las1, df, Columns(df), <<>>),
            st  |-> <<>>]

\* A plausible slip: the metadata is written into a header emptied first.
csv_to_las_bare_header(csv_file, well_info, fault) ==
  IF csv_file.kind # "csv" \/ fault = "append_curve"
  THEN [ok |-> FALSE, las |-> <<>>,
        st |-> <<[kind |-> "error", text |-> "Erro ao converter para LAS"]>>]
  ELSE LET df        == csv_file.table
           las0      == [well   |-> [i \in DOMAIN well_info |->
                                       [mnemonic |-> well_info[i].key,
                                        value    |-> well_info[i].value]],
                         curves |-> <<>>]
           depth_col == get_depth_column(Columns(df))
           las1      == append_curve(las0, depth_col, Column(df, depth_col), <<"m">>)
       IN  [ok  |-> TRUE,
            las |-> append_remaining(las1, df, Columns(df), depth_col),
            st  |-> <<>>]

\* well_info is the dict as a sequence of its items (<<>> for None or {}).
\* fault names the library call that raises, if one does; everything from
\* read_csv to the last append_curve is inside the try.  The result: ok (FALSE:
\* None was returned), the LASFile, and what was put on the page.
csv_to_las(csv_file, well_info, fault) ==
  IF csv_file.kind # "csv" \/ fault = "append_curve"
  THEN [ok |-> FALSE, las |-> <<>>,
        st |-> <<Error("Erro ao converter para LAS")>>]
  ELSE LET df        == csv_file.table
           las0      == [LASFile EXCEPT !.well = write_well_info(@, well_info)]
           depth_col == get_depth_column(Columns(df))
           las1      == append_curve(las0, depth_col, Column(df, depth_col), <<"m">>)
       IN  [ok  |-> TRUE,
            las |-> append_remaining(las1, df, Columns(df), depth_col),
            st  |-> <<>>]

----------------------------------------------------------------------------
(* Well metadata *)

WellKeys == <<"WELL", "FLD", "COMP", "DATE">>

WellText ==
  [k \in {"WELL", "FLD", "COMP", "DATE"} |->
     CASE k = "WELL" -> "W-1"
       [] k = "FLD"  -> "North"
       [] k = "COMP" -> "ACME"
       [] k = "DATE" -> "2026-11-01"]

\* The dict holding the keys of `keys`, in the order WELL, FLD, COMP, DATE.
WellInfo(keys) ==
  LET chosen == SelectSeq(WellKeys, LAMBDA k : k \in keys)
  IN  [i \in DOMAIN chosen |-> [key |-> chosen[i], value |-> WellText[chosen[i]]]]

WellInfos == {WellInfo(keys) : keys \in SUBSET {"WELL", "FLD", "COMP", "DATE"}}

----------------------------------------------------------------------------
(* The functions called directly *)

Idle ==
  /\ entry = "idle"
  /\ args = <<>>
  /\ ret = <<>>
  /\ page = <<>>
  /\ outcome = "none"

Init == Idle

Call_get_depth_column ==
  /\ entry = "idle"
  /\ \E cols \in ColumnLists :
        /\ entry' = "get_depth_column"
        /\ args' = [df |-> Frame(cols)]
        /\ ret' = [value |-> get_depth_column(cols)]
        /\ page' = <<>>
        /\ outcome' = "returned"

Call_plot_basic_logs ==
  /\ entry = "idle"
  /\ \E cols \in ColumnLists, depth_col \in Names :
        LET r == plot_basic_logs(Frame(cols), depth_col)
        IN  /\ entry' = "plot_basic_logs"
            /\ args' = [df |-> Frame(cols), depth_col |-> depth_col]
            /\ ret' = [fig |-> r.fig, traces |-> r.traces]
            /\ page' = r.st
            /\ outcome' = IF r.raised THEN "raised" ELSE "returned"

Call_las_to_csv ==
  /\ entry = "idle"
  /\ \E las_file \in LasFiles :
        LET r == las_to_csv(las_file)
        IN  /\ entry' = "las_to_csv"
            /\ args' = [las_file |-> las_file]
            /\ ret' = [ok |-> r.ok, df |-> r.df]
            /\ page' = r.st
            /\ outcome' = "returned"

Call_csv_to_las ==
  /\ entry = "idle"
  /\ \E csv_file \in CsvFiles, well_info \in WellInfos,
        fault \in {"none", "append_curve"} :
        LET r == csv_to_las(csv_file, well_info, fault)
        IN  /\ entry' = "csv_to_las"
            /\ args' = [csv_file |-> csv_file, well_info |-> well_info,
                        fault |-> fault]
            /\ ret' = [ok |-> r.ok, las |-> r.las]
            /\ page' = r.st
            /\ outcome' = "returned"

\* A table converted to LAS, written, and the text read back by las_to_csv.
Call_round_trip ==
  /\ entry = "idle"
  /\ \E cols \in ColumnLists :
        LET there == csv_to_las(CsvUpload(cols), <<>>, "none")
            back  == las_to_csv(LasUpload(las_write(there.las)))
        IN  /\ entry' = "round_trip"
            /\ args' = [df |-> Frame(cols)]
            /\ ret' = [ok |-> back.ok, df |-> back.df]
            /\ page' = there.st \o back.st
            /\ outcome' = "returned"

\* The caller is done with the result; the next call starts from nothing.
Return ==
  /\ entry \notin {"idle", "main"}
  /\ entry' = "idle"
  /\ args' = <<>>
  /\ ret' = <<>>
  /\ page' = <<>>
  /\ outcome' = "none"

ApiNext ==
  \/ Call_get_depth_column
  \/ Call_plot_basic_logs
  \/ Call_las_to_csv
  \/ Call_csv_to_las
  \/ Call_round_trip
  \/ Return

ApiSpec == Init /\ [][ApiNext]_vars

----------------------------------------------------------------------------
(* main: one run of the script per uploaded file *)

Markdown(text) == [kind |-> "markdown", text |-> text]

Success == [kind |-> "success", text |-> "Arquivo convertido com sucesso!"]

\* df.to_csv(index=False): the header row is the column names.
to_csv(df) == [header |-> Columns(df), rows |-> [i \in DOMAIN df |-> df[i].data]]

\* The text inputs of the page: left empty, or filled in.
TextInputs(k) == {"", WellText[k]}

\* conversion_type = 'LAS para CSV', a file uploaded.
MainLasToCsv ==
  /\ entry = "idle"
  /\ \E las_file \in LasFiles :
        LET r         == las_to_csv(las_file)
            depth_col == get_depth_column(Columns(r.df))
            p         == plot_basic_logs(r.df, depth_col)
        IN  /\ entry' = "main"
            /\ args' = [conversion_type |-> "LAS para CSV", file |-> las_file]
            /\ ret' = <<>>
            /\ page' =
                 IF ~r.ok THEN r.st
                 ELSE r.st
                      \o <<Success,
                           Markdown("Estatisticas Basicas"),
                           [kind |-> "dataframe", of |-> Columns(r.df)],
                           [kind |-> "download_button", file_name |-> "converted.csv",
                            data |-> to_csv(r.df)],
                           Markdown("Visualizacao dos Perfis")>>
                      \o p.st
                      \o (IF p.fig
                          THEN <<[kind |-> "plotly_chart", traces |-> p.traces,
                                  depth_col |-> depth_col]>>
                          ELSE <<>>)
            /\ outcome' = IF r.ok /\ p.raised THEN "uncaught" ELSE "done"

\* conversion_type = 'CSV para LAS', a file uploaded, the well inputs as the
\* user left them.  las.write() is called by main, outside any try.
MainCsvToLas ==
  /\ entry = "idle"
  /\ \E csv_file \in CsvFiles,
        well \in TextInputs("WELL"), fld \in TextInputs("FLD"),
        comp \in TextInputs("COMP"),
        fault \in {"none", "append_curve", "write"} :
        LET well_info == <<[key |-> "WELL", value |-> well],
                           [key |-> "FLD",  value |-> fld],
                           [key |-> "COMP", value |-> comp],
                           [key |-> "DATE", value |-> WellText["DATE"]]>>
            r         == csv_to_las(csv_file, well_info, fault)
            asked     == <<Markdown("Informacoes do Poco")>>
        IN  /\ entry' = "main"
            /\ args' = [conversion_type |-> "CSV para LAS", file |-> csv_file,
                        well_info |-> well_info, fault |-> fault]
            /\ ret' = <<>>
            /\ page' =
                 IF ~r.ok THEN asked \o r.st
                 ELSE IF fault = "write" THEN asked
                 ELSE asked
                      \o <<Success,
                           [kind |-> "download_button", file_name |-> "converted.las",
                            data |-> las_write(r.las)],
                           Markdown("Preview do Arquivo LAS"),
                           [kind |-> "text_area", value |-> las_write(r.las)]>>
            /\ outcome' = IF r.ok /\ fault = "write" THEN "uncaught" ELSE "done"

\* The next interaction reruns the script from the top.
Rerun ==
  /\ entry = "main"
  /\ entry' = "idle"
  /\ args' = <<>>
  /\ ret' = <<>>
  /\ page' = <<>>
  /\ outcome' = "none"

Next ==
  \/ MainLasToCsv
  \/ MainCsvToLas
  \/ Rerun

Spec == Init /\ [][Next]_vars

----------------------------------------------------------------------------
(* Properties of get_depth_column (ApiSpec) *)

\* The name contains a vocabulary term, case-insensitively.
HasDepthTerm(name) ==
  \E k \in DOMAIN depth_columns : Contains(lower(name), lower(depth_columns[k]))

\* Some column is a vocabulary term verbatim.
HasExactMatch(columns) ==
  \E k \in DOMAIN depth_columns : InSeq(depth_columns[k], columns)

\* C1: when some column equals a vocabulary term verbatim, the result is the
\* earliest term of DEPTH, MD, TVD, DEPT, PROFUNDIDADE, PROF present among the
\* columns, whatever the order of the columns and whatever other column
\* contains a term as a substring; a column named DEPTH always wins.
C1_ExactMatchByPriority ==
  entry = "get_depth_column" =>
    LET columns == Columns(args.df)
    IN  /\ \A i \in DOMAIN depth_columns :
              (/\ InSeq(depth_columns[i], columns)
               /\ \A j \in 1..(i - 1) : ~InSeq(depth_columns[j], columns))
              => ret.value = depth_columns[i]
        /\ InSeq(DEPTH, columns) => ret.value = DEPTH

C1_Witness ==
  /\ entry = "get_depth_column"
  /\ Columns(args.df) = <<MD_depth_m, MD, DEPTH>>
  /\ ret.value = DEPTH

\* C2 as stated: with no exact match and a column MD_depth_m, the result is
\* MD_depth_m, whatever the other columns and wherever it stands.
C2_AlwaysMD_depth_m ==
  (/\ entry = "get_depth_column"
   /\ ~HasExactMatch(Columns(args.df))
   /\ InSeq(MD_depth_m, Columns(args.df)))
  => ret.value = MD_depth_m

\* C2 amended: with no exact match and a column MD_depth_m, the result is the
\* first column, in dataset order, whose name contains a vocabulary term
\* case-insensitively: MD_depth_m unless a column before it contains one too.
C2_FirstPartialMatch ==
  (/\ entry = "get_depth_column"
   /\ ~HasExactMatch(Columns(args.df))
   /\ InSeq(MD_depth_m, Columns(args.df)))
  => LET columns == Columns(args.df)
     IN  /\ \E j \in DOMAIN columns :
               /\ ret.value = columns[j]
               /\ HasDepthTerm(columns[j])
               /\ \A i \in 1..(j - 1) : ~HasDepthTerm(columns[i])
         /\ (\A j \in DOMAIN columns :
                HasDepthTerm(columns[j]) => columns[j] = MD_depth_m)
            => ret.value = MD_depth_m

C2_Witness ==
  /\ entry = "get_depth_column"
  /\ Columns(args.df) = <<FOO, tvd_ft, MD_depth_m>>
  /\ ret.value = tvd_ft

\* C3: with no exact and no partial match the result is the first column; and
\* the result is always the name of a column of the dataset.
C3_DefaultFirstAndTotal ==
  entry = "get_depth_column" =>
    LET columns == Columns(args.df)
    IN  /\ InSeq(ret.value, columns)
        /\ (/\ ~HasExactMatch(columns)
            /\ \A j \in DOMAIN columns : ~HasDepthTerm(columns[j]))
           => ret.value = columns[1]

C3_Witness ==
  /\ entry = "get_depth_column"
  /\ Columns(args.df) = <<FOO, GR, NOTES>>
  /\ ret.value = FOO

----------------------------------------------------------------------------
(* Properties of plot_basic_logs *)

TraceNames(traces) == [i \in DOMAIN traces |-> traces[i].name]

IsStandardCurve(name) == InSeq(name, available_curves)

PositionIn(seq, x) == Min({i \in DOMAIN seq : seq[i] = x})

\* C4: the traces are the vocabulary terms that are columns, in vocabulary
\* order; only when there is none are they all columns but the depth column,
\* in dataset order.  (ApiSpec)
C4_TracesAreStandardCurvesElseOthers ==
  (entry = "plot_basic_logs" /\ outcome = "returned" /\ ret.fig) =>
    LET columns == Columns(args.df)
        names   == TraceNames(ret.traces)
    IN  IF \E j \in DOMAIN columns : IsStandardCurve(columns[j])
        THEN /\ \A i \in DOMAIN names :
                   IsStandardCurve(names[i]) /\ InSeq(names[i], columns)
             /\ \A j \in DOMAIN columns :
                   IsStandardCurve(columns[j]) => InSeq(columns[j], names)
             /\ \A i, k \in DOMAIN names :
                   i < k => PositionIn(available_curves, names[i])
                              < PositionIn(available_curves, names[k])
        ELSE names = SelectSeq(columns, LAMBDA c : c # args.depth_col)

C4_Witness ==
  /\ entry = "plot_basic_logs"
  /\ Columns(args.df) = <<DEPTH, RHOB, GR>>
  /\ args.depth_col = DEPTH
  /\ TraceNames(ret.traces) = <<GR, RHOB>>

\* The page shows the plotter's "no curves" error and no chart.
EmptyPlot ==
  /\ \E i \in DOMAIN page : page[i] = Error("Nao ha curvas para plotar.")
  /\ "plotly_chart" \notin Kinds(page)

\* main converted a LAS file whose only curve is the depth index.
OnlyDepthColumn ==
  /\ entry = "main"
  /\ args.conversion_type = "LAS para CSV"
  /\ args.file.kind = "las"
  /\ Len(args.file.text.curves) = 1

\* C5 as stated: a dataset with only a depth column yields EmptyPlot, whatever
\* the name of that column.  (Spec)
C5_OnlyDepthNeverPlots == OnlyDepthColumn => EmptyPlot

\* C5 amended: a dataset with only a depth column yields EmptyPlot unless that
\* column is named by a term of the curve vocabulary.  (Spec)
C5_OnlyDepthNotStandardNeverPlots ==
  (/\ OnlyDepthColumn
   /\ ~IsStandardCurve(lasio_read(args.file.text).curves[1].mnemonic))
  => EmptyPlot

C5_Witness ==
  /\ OnlyDepthColumn
  /\ lasio_read(args.file.text).curves[1].mnemonic = FOO
  /\ EmptyPlot

----------------------------------------------------------------------------
(* Properties of csv_to_las (ApiSpec) *)

Mnemonics(curves) == [i \in DOMAIN curves |-> curves[i].mnemonic]

\* C6: the curves are the resolved depth column, with unit m, then every other
\* column once, in dataset order, without unit, each with its column's values:
\* a permutation of the dataset's columns.
C6_DepthFirstThenOthers ==
  (entry = "csv_to_las" /\ ret.ok) =>
    LET df      == args.csv_file.table
        columns == Columns(df)
        curves  == ret.las.curves
        others  == SelectSeq(columns, LAMBDA c : c # curves[1].mnemonic)
    IN  /\ Len(curves) = Len(columns)
        /\ curves[1].mnemonic = get_depth_column(columns)
        /\ curves[1].unit = <<"m">>
        /\ Tail(Mnemonics(curves)) = others
        /\ \A i \in 2..Len(curves) : curves[i].unit = <<>>
        /\ \A i \in DOMAIN curves :
              \E j \in DOMAIN df :
                 df[j].name = curves[i].mnemonic /\ df[j].data = curves[i].data
        /\ {curves[i].mnemonic : i \in DOMAIN curves}
             = {columns[j] : j \in DOMAIN columns}

C6_Witness ==
  /\ entry = "csv_to_las"
  /\ ret.ok
  /\ Columns(args.csv_file.table) = <<GR, DEPTH, FOO>>
  /\ Mnemonics(ret.las.curves) = <<DEPTH, GR, FOO>>

Supplied(well_info, key) == \E i \in DOMAIN well_info : well_info[i].key = key

SuppliedValue(well_info, key) ==
  well_info[CHOOSE i \in DOMAIN well_info : well_info[i].key = key].value

----------------------------------------------------------------------------
(* Properties of las_to_csv (ApiSpec) *)

\* C8: a table converted to LAS, written and read back has the same column
\* names and, under each name, the same values.
C8_RoundTripPreserves ==
  entry = "round_trip" =>
    /\ ret.ok
    /\ {ret.df[i].name : i \in DOMAIN ret.df}
         = {args.df[i].name : i \in DOMAIN args.df}
    /\ \A i \in DOMAIN args.df :
          \E j \in DOMAIN ret.df :
             ret.df[j].name = args.df[i].name /\ ret.df[j].data = args.df[i].data

\* C9: the dataset of a parsed LAS file has the depth index as a column named
\* by the file's index unit, or DEPTH when it declares none, and one column
\* per curve.
C9_DepthNamedByIndexUnit ==
  (entry = "las_to_csv" /\ ret.ok) =>
    LET las      == lasio_read(args.las_file.text)
        declared == las.curves[1].unit
        expected == IF declared = <<>> THEN DEPTH ELSE declared
    IN  /\ Len(ret.df) = Len(las.curves)
        /\ \E j \in DOMAIN ret.df :
              /\ lower(ret.df[j].name) = lower(expected)
              /\ ret.df[j].data = las.curves[1].data

----------------------------------------------------------------------------
(* Properties of main (Spec) *)

\* A conversion step of the run failed.
ConversionFailed ==
  /\ entry = "main"
  /\ \/ args.conversion_type = "LAS para CSV" /\ args.file.kind # "las"
     \/ args.conversion_type = "CSV para LAS"
          /\ (args.file.kind # "csv" \/ args.fault # "none")

\* C10: when a conversion step fails the run ends normally with an error
\* message on the page and nothing else of the conversion: no success notice,
\* statistics, download, chart or preview.
C10_FailureReportedNoOutput ==
  ConversionFailed =>
    /\ outcome = "done"
    /\ "error" \in Kinds(page)
    /\ Kinds(page) \cap {"success", "dataframe", "download_button",
                         "plotly_chart", "text_area"} = {}

====
